---- MODULE Spec2Model ----
(***************************************************************************)
(* coal-web (src/coal/coal_web.py): the /v1/metrics handler, its response  *)
(* cache, and the resampling pipeline of fetch_metric.                     *)
(*                                                                         *)
(* Numbers.  Python floats are modelled as exact rationals <<n, d>> with   *)
(* d > 0 in lowest terms; Python None (JSON null) is <<0, 0>>.             *)
(*                                                                         *)
(* Specifications.                                                         *)
(*   Spec        one worker serving requests one after the other.          *)
(*   SpecShared  two workers sharing one FileSystemCache.                  *)
(*   SpecFetch   fetch_metric applied to one backend reply.                *)
(*   SpecInterp  interpolate_missing applied to one list.                  *)
(***************************************************************************)
EXTENDS Integers, Sequences, FiniteSets, TLC

None == <<0, 0>>

IsNone(y) == y[2] = 0

Abs(n) == IF n < 0 THEN -n ELSE n

RECURSIVE GCD(_, _)
GCD(a, b) == IF b = 0 THEN a ELSE GCD(b, a % b)

\* The rational n/d (d # 0) in lowest terms with a positive denominator.
Rat(n, d) ==
    LET s == IF d < 0 THEN -1 ELSE 1
        g == GCD(Abs(n), Abs(d))
    IN  <<(s * n) \div g, (s * d) \div g>>

Num(v) == <<v, 1>>

RatLess(a, b) == a[1] * b[2] < b[1] * a[2]

RatAdd(a, b) == Rat(a[1] * b[2] + b[1] * a[2], a[2] * b[2])

RatSub(a, b) == Rat(a[1] * b[2] - b[1] * a[2], a[2] * b[2])

RatMul(a, b) == Rat(a[1] * b[1], a[2] * b[2])

\* Python truthiness of a sample or point: None and 0 are falsy.
Truthy(y) == ~IsNone(y) /\ y[1] # 0

Min(a, b) == IF a < b THEN a ELSE b

(***************************************************************************)
(* METRICS and PERIODS (lines 34-48).                                      *)
(***************************************************************************)
METRICS == <<"responseStart", "firstPaint", "domInteractive", "loadEventEnd", "saveTiming">>

PeriodNames == {"hour", "day", "week", "month", "year"}

PERIODS ==
    [p \in PeriodNames |->
        CASE p = "hour"  -> 60 * 60
          [] p = "day"   -> 60 * 60 * 24
          [] p = "week"  -> 60 * 60 * 24 * 7
          [] p = "month" -> 60 * 60 * 24 * 30
          [] p = "year"  -> (60 * 60 * 24 * 1461) \div 4]

\* The literal 60 of lines 119 and 135: output points per period.
PointsPerPeriod == 60

(***************************************************************************)
(* chunks (lines 69-72), for chunk_size > 0.  range(0, len, 0) raises      *)
(* ValueError; fetch_metric below models that case.                        *)
(***************************************************************************)
chunks(items, chunk_size) ==
    [k \in 1..((Len(items) + chunk_size - 1) \div chunk_size) |->
        SubSeq(items, (k - 1) * chunk_size + 1, Min(k * chunk_size, Len(items)))]

\* Faulty variant: a blank takes the previous known value (no interpolation).
interp_previous(x, x_vals, y_vals) ==
    IF x < x_vals[1] THEN y_vals[1]
    ELSE y_vals[CHOOSE i \in 1..Len(x_vals) :
                    x_vals[i] < x /\ \A j \in 1..Len(x_vals) : x_vals[j] < x => j <= i]

(***************************************************************************)
(* numpy.interp(x, xp, fp) for one x: linear between the bracketing sample *)
(* points, the first/last fp outside [xp[1], xp[Len(xp)]].                 *)
(***************************************************************************)
interp(x, x_vals, y_vals) ==
    IF x < x_vals[1] THEN y_vals[1]
    ELSE IF x > x_vals[Len(x_vals)] THEN y_vals[Len(y_vals)]
    ELSE LET j == CHOOSE i \in 1..(Len(x_vals) - 1) : x_vals[i] < x /\ x < x_vals[i + 1]
             slope == RatMul(RatSub(y_vals[j + 1], y_vals[j]), Rat(1, x_vals[j + 1] - x_vals[j]))
         IN  RatAdd(RatMul(slope, Num(x - x_vals[j])), y_vals[j])

\* The indices lo..hi of s whose entry is absent (blank) or present (~blank),
\* in increasing order.
RECURSIVE IndicesIn(_, _, _, _)
IndicesIn(s, blank, lo, hi) ==
    IF lo > hi THEN <<>>
    ELSE IF lo = hi THEN (IF IsNone(s[lo]) = blank THEN <<lo>> ELSE <<>>)
    ELSE LET mid == (lo + hi) \div 2
         IN  IndicesIn(s, blank, lo, mid) \o IndicesIn(s, blank, mid + 1, hi)

(***************************************************************************)
(* interpolate_missing (lines 75-89).  With blanks and no present value    *)
(* numpy.interp raises ValueError: ok = FALSE.                             *)
(***************************************************************************)
interpolate_missing(sparse_list) ==
    LET x_vals   == IndicesIn(sparse_list, FALSE, 1, Len(sparse_list))
        y_vals   == [i \in 1..Len(x_vals) |-> sparse_list[x_vals[i]]]
        x_blanks == IndicesIn(sparse_list, TRUE, 1, Len(sparse_list))
    IN  IF x_blanks = <<>> THEN [ok |-> TRUE, val |-> sparse_list]
        ELSE IF x_vals = <<>> THEN [ok |-> FALSE, val |-> <<>>]
        ELSE [ok |-> TRUE,
              val |-> [x \in 1..Len(sparse_list) |->
                          IF IsNone(sparse_list[x]) THEN interp(x, x_vals, y_vals)
                          ELSE sparse_list[x]]]

(***************************************************************************)
(* numpy.median of a non-empty list: the middle of the sorted values, or   *)
(* the mean of the two middle ones.                                        *)
(***************************************************************************)
RECURSIVE Insert(_, _)
Insert(s, y) ==
    IF s = <<>> THEN <<y>>
    ELSE IF RatLess(y, Head(s)) THEN <<y>> \o s
    ELSE <<Head(s)>> \o Insert(Tail(s), y)

RECURSIVE Sort(_)
Sort(s) == IF s = <<>> THEN <<>> ELSE Insert(Sort(Tail(s)), Head(s))

median(samples) ==
    LET s == Sort(samples)
        n == Len(s)
    IN  IF n % 2 = 1 THEN s[(n + 1) \div 2]
        ELSE RatMul(RatAdd(s[n \div 2], s[n \div 2 + 1]), Rat(1, 2))

\* round(pt, 1): the nearest multiple of 0.1, ties to the even one.
round1(pt) ==
    LET N   == 10 * pt[1]
        f   == N \div pt[2]
        rem == N - f * pt[2]
        t   == IF 2 * rem < pt[2] THEN f
               ELSE IF 2 * rem > pt[2] THEN f + 1
               ELSE IF f % 2 = 0 THEN f ELSE f + 1
    IN  Rat(t, 10)

any(points) == \E i \in 1..Len(points) : Truthy(points[i])

(***************************************************************************)
(* fetch_metric, lines 119-126: one point per chunk, the median of the     *)
(* chunk's truthy samples, or None when the chunk has none.                *)
(***************************************************************************)
chunk_points(all_samples, samples_per_point) ==
    LET cs == chunks(all_samples, samples_per_point)
    IN  [k \in 1..Len(cs) |->
            LET samples == SelectSeq(cs[k], Truthy)
            IN  IF samples # <<>> THEN median(samples) ELSE None]

\* fetch_metric, lines 127-130.
dense_points(points) ==
    IF any(points)
    THEN LET d == interpolate_missing(points).val
         IN  [i \in 1..Len(d) |-> round1(d[i])]
    ELSE <<>>

Failed == [ok |-> FALSE, start |-> 0, end |-> 0, step |-> 0, points |-> <<>>]

\* Faulty variant: the chunk size is at least 1, so a short series is resampled.
fetch_metric_min_chunk(metric, period, reply) ==
    LET raw_points == reply.datapoints
        all_samples == [i \in 1..Len(raw_points) |-> raw_points[i][1]]
        n == Len(all_samples) \div PointsPerPeriod
        samples_per_point == IF n = 0 THEN 1 ELSE n
    IN  IF ~reply.ok THEN Failed
        ELSE IF ~(Len(raw_points) > 1) THEN Failed
        ELSE [ok     |-> TRUE,
              start  |-> raw_points[1][2],
              end    |-> raw_points[Len(raw_points)][2],
              step   |-> period \div PointsPerPeriod,
              points |-> dense_points(chunk_points(all_samples, samples_per_point))]

(***************************************************************************)
(* fetch_metric (lines 92-137).  reply is what requests.get(url).json()    *)
(* produced: reply.ok = FALSE when the call or the JSON decoding raised,   *)
(* reply.datapoints the [value, timestamp] pairs otherwise.  The result is *)
(* Failed when fetch_metric raises, the returned dict otherwise.           *)
(***************************************************************************)
fetch_metric(metric, period, reply) ==
    LET raw_points == reply.datapoints
        all_samples == [i \in 1..Len(raw_points) |-> raw_points[i][1]]
        samples_per_point == Len(all_samples) \div PointsPerPeriod
    IN  IF ~reply.ok THEN Failed
        ELSE IF ~(Len(raw_points) > 1) THEN Failed
        ELSE IF samples_per_point = 0 THEN Failed
        ELSE [ok     |-> TRUE,
              start  |-> raw_points[1][2],
              end    |-> raw_points[Len(raw_points)][2],
              step   |-> period \div PointsPerPeriod,
              points |-> dense_points(chunk_points(all_samples, samples_per_point))]

(***************************************************************************)
(* The request: its query string either gives no period or gives one.     *)
(* flask.request.full_path is "/v1/metrics?" followed by the query string, *)
(* modelled by the query alone.                                            *)
(***************************************************************************)
NoPeriod == [given |-> FALSE, period |-> ""]

Query(name) == [given |-> TRUE, period |-> name]

Queries == {NoPeriod, Query("hour"), Query("day"), Query("bogus")}

\* Faulty variant: an unknown period falls back to the default instead of being kept.
args_get_period_or_default(q) == IF q.given /\ q.period \in PeriodNames THEN q.period ELSE "day"

\* flask.request.args.get('period', 'day') (line 149).
args_get_period(q) == IF q.given THEN q.period ELSE "day"

\* Faulty variant: the key is flask.request.path, without the query string.
full_path_no_query(q) == NoPeriod

\* flask.request.full_path, the cache key (lines 145, 173).
full_path(q) == q

MetricSet == {METRICS[i] : i \in 1..Len(METRICS)}

NoResp ==
    [status |-> 0, error |-> <<>>, start |-> 0, end |-> 0, step |-> 0, points |-> <<>>,
     max_age |-> 0, public |-> FALSE, cors |-> FALSE]

\* flask.jsonify(error=...), 401 (lines 151, 159-160).
error_response(error) == [NoResp EXCEPT !.status = 401, !.error = error]

InvalidPeriodError == <<"Invalid value for \"period\".">>

MetricError(metric) == <<"Unable to retrieve metric coal.", metric, " from graphite server">>

\* Lines 162-171: the envelope, with Cache-Control: public, max-age=step // 2.
envelope(data, points) ==
    [NoResp EXCEPT !.status = 200, !.start = data.start, !.end = data.end,
                   !.step = data.step, !.points = points,
                   !.max_age = data.step \div 2, !.public = TRUE]

\* add_header (lines 59-66).
add_header(response) ==
    [response EXCEPT !.max_age = IF response.max_age = 0 /\ ~response.public THEN 30 ELSE @,
                     !.cors = TRUE]

(***************************************************************************)
(* The cache (lines 50-56): FileSystemCache when CACHE_DIR is writable,    *)
(* NullCache otherwise.  An entry is the stored response and its expiry    *)
(* time; NoEntry is a key without a file.                                  *)
(***************************************************************************)
NoEntry == [present |-> FALSE, value |-> NoResp, expires |-> 0]

\* cache.get(key) (line 145): the value returned.
cache_get(writable, store, key, now) ==
    IF writable /\ store[key].present /\ store[key].expires >= now
    THEN store[key].value
    ELSE NoResp

\* cache.get(key): the store afterwards (an expired file is removed).
cache_after_get(writable, store, key, now) ==
    IF writable /\ store[key].present /\ store[key].expires < now
    THEN [store EXCEPT ![key] = NoEntry]
    ELSE store

\* Faulty variant: the timeout is not added to the time of the write.
cache_set_no_timeout(writable, store, key, value, timeout, now) ==
    IF writable
    THEN [store EXCEPT ![key] = [present |-> TRUE, value |-> value, expires |-> now]]
    ELSE store

\* cache.set(key, value, timeout) (line 173): the store afterwards.
cache_set(writable, store, key, value, timeout, now) ==
    IF writable
    THEN [store EXCEPT ![key] = [present |-> TRUE, value |-> value, expires |-> now + timeout]]
    ELSE store

(***************************************************************************)
(* The backend (the reply to the query of lines 96-110).  For the window   *)
(* starting at from_time it either fails, or returns too few datapoints,   *)
(* or returns one datapoint per step, the first at the first multiple of   *)
(* the step that is not before from_time.  A metric with recorded data     *)
(* has its own values, with every third sample missing; a metric without   *)
(* has only nulls.                                                         *)
(***************************************************************************)
Index(metric) == CHOOSE i \in 1..Len(METRICS) : METRICS[i] = metric

AlignUp(t, interval) == ((t + interval - 1) \div interval) * interval

MetricSeries(metric, n, first, interval, recorded) ==
    [i \in 1..n |->
        <<IF recorded /\ i % 3 # 2 THEN Num(100 * Index(metric) + i) ELSE None,
          first + interval * (i - 1)>>]

BackendReplies(metric, from_time, period, recorded) ==
    LET interval == period \div PointsPerPeriod
        first == AlignUp(from_time, interval)
    IN  {[ok |-> FALSE, datapoints |-> <<>>],
         [ok |-> TRUE,
          datapoints |-> MetricSeries(metric, PointsPerPeriod - 1, first, interval, recorded)],
         [ok |-> TRUE,
          datapoints |-> MetricSeries(metric, PointsPerPeriod, first, interval, recorded)]}

(***************************************************************************)
(* State.                                                                  *)
(*   debug: app.debug.  writable: os.access(CACHE_DIR, os.W_OK) at import. *)
(*   clock: time.time().  cache: the files of the cache.                   *)
(*   req[w]: the request worker w is handling: pc, the query q, the index  *)
(*   i of the next metric, points and data of get_metrics, the response    *)
(*   returned, and the number of backend calls made; failed_at is the      *)
(*   index of the metric whose fetch raised, wrote tells that the request  *)
(*   called cache.set, got lists the start and end each fetch returned.    *)
(*   lastSet[q]: the last envelope rendered for query q and when.          *)
(*   fm_period, fm_reply, fm_result: one call of fetch_metric.             *)
(*   im_input, im_result: one call of interpolate_missing.                 *)
(***************************************************************************)
VARIABLES debug, writable, clock, cache, req, lastSet,
          fm_period, fm_reply, fm_result, im_input, im_result

web_vars == <<debug, writable, clock, cache, req, lastSet>>

fm_vars == <<fm_period, fm_reply, fm_result>>
im_vars == <<im_input, im_result>>
vars == <<web_vars, fm_vars, im_vars>>

\* Bounds of the inputs.
MaxSamples == 121
MaxLen == 4

SampleValues == {None, Num(0), Num(1), Num(-1), Num(4)}

PointValues == {None, Num(0), Num(1), Num(3), Rat(-3, 2)}

\* n datapoints, one per minute: the samples of head, then fill.
RawSeries(n, head, fill) ==
    [i \in 1..n |-> <<IF i <= Len(head) THEN head[i] ELSE fill, 60 * i>>]

NoCall == [done |-> FALSE, res |-> Failed]
NoInterp == [done |-> FALSE, ok |-> FALSE, val |-> <<>>]

fm_idle == fm_period = 0 /\ fm_reply = [ok |-> FALSE, datapoints |-> <<>>] /\ fm_result = NoCall
im_idle == im_input = <<>> /\ im_result = NoInterp

Workers == {"w1", "w2"}

MaxTicks == 2
TickSeconds == 20
StartTime == 100000

Idle ==
    [pc |-> "idle", q |-> NoPeriod, i |-> 0, points |-> <<>>, data |-> Failed, calls |-> 0,
     resp |-> NoResp, failed_at |-> 0, wrote |-> FALSE, got |-> <<>>]

NoRender == [present |-> FALSE, resp |-> NoResp, at |-> 0]

web_idle ==
    /\ debug = FALSE /\ writable = FALSE /\ clock = StartTime
    /\ cache = [k \in Queries |-> NoEntry]
    /\ req = [w \in Workers |-> Idle]
    /\ lastSet = [q \in Queries |-> NoRender]

(***************************************************************************)
(* The application: requests to /v1/metrics.                               *)
(***************************************************************************)
Init ==
    /\ fm_idle /\ im_idle
    /\ debug \in BOOLEAN
    /\ writable \in BOOLEAN
    /\ clock = StartTime
    /\ cache = [k \in Queries |-> NoEntry]
    /\ req = [w \in Workers |-> Idle]
    /\ lastSet = [q \in Queries |-> NoRender]

\* get_metrics, lines 142-153: the cache lookup and the period check.
Start(w, q) ==
    /\ req[w].pc = "idle"
    /\ LET response == IF ~debug THEN cache_get(writable, cache, full_path(q), clock) ELSE NoResp
           period_name == args_get_period(q)
       IN  /\ cache' = IF ~debug THEN cache_after_get(writable, cache, full_path(q), clock) ELSE cache
           /\ req' = [req EXCEPT ![w] =
                  IF response # NoResp
                  THEN [Idle EXCEPT !.pc = "done", !.q = q, !.resp = add_header(response)]
                  ELSE IF period_name \notin DOMAIN PERIODS
                  THEN [Idle EXCEPT !.pc = "done", !.q = q,
                                    !.resp = add_header(error_response(InvalidPeriodError))]
                  ELSE [Idle EXCEPT !.pc = "fetch", !.q = q, !.i = 1]]
    /\ UNCHANGED <<debug, writable, clock, lastSet, fm_vars, im_vars>>

\* Faulty variant: a metric whose fetch fails is skipped and the loop goes on.
Fetch_best_effort(w, reply) ==
    LET r == req[w]
        metric == METRICS[r.i]
        data == fetch_metric(metric, PERIODS[args_get_period(r.q)], reply)
    IN  /\ req' = [req EXCEPT ![w] =
               [r EXCEPT !.calls = @ + 1,
                         !.failed_at = IF ~data.ok /\ @ = 0 THEN r.i ELSE @,
                         !.data = IF data.ok THEN data ELSE @,
                         !.got = IF data.ok THEN Append(@, <<data.start, data.end>>) ELSE @,
                         !.points = IF data.ok
                                    THEN [m \in DOMAIN r.points \cup {metric} |->
                                             IF m = metric THEN data.points ELSE r.points[m]]
                                    ELSE @,
                         !.i = IF r.i = Len(METRICS) THEN 0 ELSE r.i + 1,
                         !.pc = IF r.i = Len(METRICS) THEN "store" ELSE "fetch"]]
        /\ UNCHANGED <<debug, writable, clock, cache, lastSet, fm_vars, im_vars>>

\* Faulty variant: the envelope's data is that of the first metric fetched.
Fetch_keep_first_data(w, reply) ==
    LET r == req[w]
        metric == METRICS[r.i]
        data == fetch_metric(metric, PERIODS[args_get_period(r.q)], reply)
    IN  /\ req' = [req EXCEPT ![w] =
               IF ~data.ok
               THEN [r EXCEPT !.pc = "done", !.calls = @ + 1, !.failed_at = r.i,
                              !.data = Failed, !.points = <<>>, !.i = 0,
                              !.resp = add_header(error_response(MetricError(metric)))]
               ELSE [r EXCEPT !.calls = @ + 1, !.data = IF r.i = 1 THEN data ELSE @,
                              !.got = Append(@, <<data.start, data.end>>),
                              !.points = [m \in DOMAIN r.points \cup {metric} |->
                                             IF m = metric THEN data.points ELSE r.points[m]],
                              !.i = IF r.i = Len(METRICS) THEN 0 ELSE r.i + 1,
                              !.pc = IF r.i = Len(METRICS) THEN "store" ELSE "fetch"]]
        /\ UNCHANGED <<debug, writable, clock, cache, lastSet, fm_vars, im_vars>>

\* get_metrics, lines 154-161: one iteration of the loop over METRICS.
Fetch(w, reply) ==
    LET r == req[w]
        metric == METRICS[r.i]
        data == fetch_metric(metric, PERIODS[args_get_period(r.q)], reply)
    IN  /\ req' = [req EXCEPT ![w] =
               IF ~data.ok
               THEN [r EXCEPT !.pc = "done", !.calls = @ + 1, !.failed_at = r.i,
                              !.data = Failed, !.points = <<>>, !.i = 0,
                              !.resp = add_header(error_response(MetricError(metric)))]
               ELSE [r EXCEPT !.calls = @ + 1, !.data = data,
                              !.got = Append(@, <<data.start, data.end>>),
                              !.points = [m \in DOMAIN r.points \cup {metric} |->
                                             IF m = metric THEN data.points ELSE r.points[m]],
                              !.i = IF r.i = Len(METRICS) THEN 0 ELSE r.i + 1,
                              !.pc = IF r.i = Len(METRICS) THEN "store" ELSE "fetch"]]
        /\ UNCHANGED <<debug, writable, clock, cache, lastSet, fm_vars, im_vars>>

FetchNext(w, recorded) ==
    /\ req[w].pc = "fetch"
    /\ LET period == PERIODS[args_get_period(req[w].q)]
           to_time == clock - 60
           from_time == to_time - period
       IN  \E reply \in BackendReplies(METRICS[req[w].i], from_time, period, recorded) : Fetch(w, reply)

\* get_metrics, lines 162-175: render the envelope, store it, return it.
Store(w) ==
    /\ req[w].pc = "store"
    /\ LET r == req[w]
           response == envelope(r.data, r.points)
           cache_retention == r.data.step \div 2
       IN  /\ cache' = IF ~debug
                       THEN cache_set(writable, cache, full_path(r.q), response, cache_retention, clock)
                       ELSE cache
           /\ lastSet' = [lastSet EXCEPT ![r.q] = [present |-> TRUE, resp |-> response, at |-> clock]]
           /\ req' = [req EXCEPT ![w] =
                  [r EXCEPT !.pc = "done", !.resp = add_header(response),
                            !.data = Failed, !.points = <<>>, !.wrote = ~debug]]
    /\ UNCHANGED <<debug, writable, clock, fm_vars, im_vars>>

\* The response has been sent; the worker takes the next request.
Finish(w) ==
    /\ req[w].pc = "done"
    /\ req' = [req EXCEPT ![w] = Idle]
    /\ UNCHANGED <<debug, writable, clock, cache, lastSet, fm_vars, im_vars>>

Tick ==
    /\ clock < StartTime + MaxTicks * TickSeconds
    /\ clock' = clock + TickSeconds
    /\ UNCHANGED <<debug, writable, cache, req, lastSet, fm_vars, im_vars>>

(***************************************************************************)
(* Spec: one worker, requests one after the other, every metric with       *)
(* recorded data, under each configuration of the cache and of app.debug.  *)
(***************************************************************************)
Next ==
    \/ \E q \in Queries : Start("w1", q)
    \/ FetchNext("w1", TRUE)
    \/ Store("w1")
    \/ Finish("w1")
    \/ Tick

Spec == Init /\ [][Next]_vars

(***************************************************************************)
(* SpecShared: concurrent workers sharing one FileSystemCache, app.debug   *)
(* off, metrics without recorded data.                                     *)
(***************************************************************************)
InitShared == Init /\ writable /\ ~debug

SharedQueries == {NoPeriod, Query("hour"), Query("bogus")}

NextShared ==
    \/ \E w \in Workers, q \in SharedQueries : Start(w, q)
    \/ \E w \in Workers : FetchNext(w, FALSE)
    \/ \E w \in Workers : Store(w)
    \/ \E w \in Workers : Finish(w)
    \/ Tick

SpecShared == InitShared /\ [][NextShared]_vars

(***************************************************************************)
(* SpecFetch: fetch_metric applied to one backend reply.                   *)
(***************************************************************************)
InitFetch ==
    /\ web_idle
    /\ im_idle
    /\ fm_period \in {PERIODS[p] : p \in PeriodNames}
    /\ \/ fm_reply = [ok |-> FALSE, datapoints |-> <<>>]
       \/ \E n \in 0..MaxSamples, head \in [1..2 -> SampleValues], fill \in SampleValues :
             fm_reply = [ok |-> TRUE, datapoints |-> RawSeries(n, head, fill)]
    /\ fm_result = NoCall

CallFetchMetric ==
    /\ ~fm_result.done
    /\ fm_result' = [done |-> TRUE, res |-> fetch_metric("saveTiming", fm_period, fm_reply)]
    /\ UNCHANGED <<fm_period, fm_reply, im_vars, web_vars>>

NextFetch == CallFetchMetric

SpecFetch == InitFetch /\ [][NextFetch]_vars

(***************************************************************************)
(* SpecInterp: interpolate_missing applied to one list of points.          *)
(***************************************************************************)
InitInterp ==
    /\ web_idle
    /\ fm_idle
    /\ \E n \in 0..MaxLen : im_input \in [1..n -> PointValues]
    /\ im_result = NoInterp

CallInterpolateMissing ==
    /\ ~im_result.done
    /\ im_result' = [done |-> TRUE] @@ interpolate_missing(im_input)
    /\ UNCHANGED <<im_input, fm_vars, web_vars>>

NextInterp == CallInterpolateMissing

SpecInterp == InitInterp /\ [][NextInterp]_vars

(***************************************************************************)
(* Properties.                                                             *)
(***************************************************************************)
Done(w) == req[w].pc = "done"

\* Worker w takes a request for query q in this step.
Arrives(w, q) == req[w].pc = "idle" /\ req'[w].pc # "idle" /\ req'[w].q = q

\* C1: when the fetch of metric number k is the first to fail, the request
\* ends with status 401 and the error naming coal.METRICS[k], the response
\* has no points, exactly k backend calls were made, and the request never
\* called cache.set.
C1_FailFast ==
    \A w \in Workers :
        (Done(w) /\ req[w].failed_at # 0) =>
            /\ req[w].resp.status = 401
            /\ req[w].resp.error = MetricError(METRICS[req[w].failed_at])
            /\ req[w].resp.points = <<>>
            /\ req[w].calls = req[w].failed_at
            /\ ~req[w].wrote
            /\ Len(req[w].got) = req[w].failed_at - 1

C1_Witness ==
    \E w \in Workers :
        /\ Done(w) /\ req[w].failed_at = 3 /\ req[w].calls = 3
        /\ req[w].resp.error = MetricError("domInteractive")
        /\ ~debug /\ writable

\* C2: a request whose period value is not one of hour, day, week, month,
\* year is answered in the step it arrives, with 401 and the invalid-period
\* body, without a backend call, and the cache is left as it was.
C2_InvalidPeriodRejected ==
    [][\A w \in Workers, q \in Queries :
          (Arrives(w, q) /\ q.given /\ q.period \notin PeriodNames) =>
              /\ req'[w].pc = "done"
              /\ req'[w].resp.status = 401
              /\ req'[w].resp.error = InvalidPeriodError
              /\ req'[w].calls = 0
              /\ cache' = cache]_vars

C2_Witness ==
    \E w \in Workers :
        /\ Done(w) /\ req[w].q = Query("bogus") /\ req[w].resp.status = 401
        /\ req[w].calls = 0
        /\ \E k \in Queries : cache[k].present /\ cache[k].expires < clock

\* The last envelope rendered for q is still within its cache TTL.
WithinTTL(q) == lastSet[q].present /\ clock <= lastSet[q].at + lastSet[q].resp.step \div 2

ServedFromCache(w, q) ==
    /\ req'[w].pc = "done"
    /\ req'[w].resp = add_header(lastSet[q].resp)
    /\ req'[w].calls = 0

\* C3, as stated: a request arriving within the cache TTL of the last
\* successful request for the same path and query returns exactly that
\* request's response and makes no backend call.
C3_Original ==
    [][\A w \in Workers, q \in Queries :
          (Arrives(w, q) /\ WithinTTL(q)) => ServedFromCache(w, q)]_vars

\* C3, amended: the same, when the cache is the FileSystemCache and
\* app.debug is off.
C3_CacheIdempotence ==
    [][\A w \in Workers, q \in Queries :
          (Arrives(w, q) /\ WithinTTL(q) /\ writable /\ ~debug) => ServedFromCache(w, q)]_vars

C3_Witness ==
    \E w \in Workers :
        /\ writable /\ ~debug
        /\ Done(w) /\ req[w].resp.status = 200 /\ req[w].calls = 0
        /\ req[w].resp = add_header(lastSet[req[w].q].resp)
        /\ clock > lastSet[req[w].q].at

\* A complete successful envelope for a request with query q.
Complete(q, v) ==
    /\ v.status = 200
    /\ v.error = <<>>
    /\ DOMAIN v.points = MetricSet
    /\ v.step = PERIODS[args_get_period(q)] \div 60
    /\ v.max_age = v.step \div 2

\* C9: under every interleaving, the entry stored under a key is a complete
\* successful envelope for that key's period, the last one rendered by a
\* request with that key, and a request is never answered with an envelope
\* of another key.
C9_CacheIntegrity ==
    /\ \A k \in Queries :
          cache[k].present =>
              /\ k.given => k.period \in PeriodNames
              /\ Complete(k, cache[k].value)
              /\ lastSet[k].present
              /\ cache[k].value = lastSet[k].resp
    /\ \A w \in Workers :
          (Done(w) /\ req[w].resp.status = 200) =>
              /\ Complete(req[w].q, req[w].resp)
              /\ req[w].calls \in {0, Len(METRICS)}

\* Two requests for the same key both missed, both computed and both wrote;
\* their responses differ and the entry is one of the two.
C9_Witness ==
    /\ Done("w1") /\ Done("w2")
    /\ req["w1"].q = req["w2"].q
    /\ req["w1"].wrote /\ req["w2"].wrote
    /\ req["w1"].calls = Len(METRICS) /\ req["w2"].calls = Len(METRICS)
    /\ req["w1"].resp # req["w2"].resp
    /\ cache[req["w1"].q].present
    /\ add_header(cache[req["w1"].q].value) \in {req["w1"].resp, req["w2"].resp}

\* The points fetch_metric returns for the recorded data of a metric.
ExpectedPoints(metric) ==
    LET raw == MetricSeries(metric, PointsPerPeriod, 0, 1, TRUE)
    IN  dense_points(chunk_points([i \in 1..Len(raw) |-> raw[i][1]], 1))

\* C10: the envelope of a computed response has the start and end the fetch
\* of the last metric of METRICS returned and the step of the period, its
\* points hold each metric's own points under its name, and the max-age and
\* the cache TTL are both step // 2.
C10_EnvelopeFromLast ==
    \A w \in Workers :
        (Done(w) /\ req[w].resp.status = 200 /\ req[w].calls = Len(METRICS)) =>
            LET r == req[w]
                last == r.got[Len(METRICS)]
            IN  /\ r.resp.start = last[1]
                /\ r.resp.end = last[2]
                /\ r.resp.step = PERIODS[args_get_period(r.q)] \div 60
                /\ DOMAIN r.resp.points = MetricSet
                /\ \A m \in MetricSet : r.resp.points[m] = ExpectedPoints(m)
                /\ r.resp.max_age = r.resp.step \div 2
                /\ r.resp.public
                /\ (writable /\ ~debug) =>
                       /\ cache[r.q].present
                       /\ add_header(cache[r.q].value) = r.resp
                       /\ cache[r.q].expires = lastSet[r.q].at + r.resp.step \div 2

C10_Witness ==
    \E w \in Workers :
        /\ Done(w) /\ req[w].resp.status = 200 /\ req[w].calls = Len(METRICS)
        /\ req[w].got[1][1] # req[w].got[Len(METRICS)][1]
        /\ req[w].resp.start = req[w].got[Len(METRICS)][1]
        /\ writable /\ ~debug

\* The call of fetch_metric under SpecFetch: its samples and its chunks.
fm_samples == [i \in 1..Len(fm_reply.datapoints) |-> fm_reply.datapoints[i][1]]

fm_chunks == chunks(fm_samples, Len(fm_samples) \div PointsPerPeriod)

fm_returned == fm_result.done /\ fm_result.res.ok

IsZero(y) == ~IsNone(y) /\ y[1] = 0

\* C4: a chunk with at least one sample equal to 0 and otherwise only null
\* samples yields the output point 0.
C4_ZeroIsPresent ==
    fm_returned =>
        \A k \in 1..Len(fm_chunks) :
            ( /\ \E j \in 1..Len(fm_chunks[k]) : IsZero(fm_chunks[k][j])
              /\ \A j \in 1..Len(fm_chunks[k]) : IsZero(fm_chunks[k][j]) \/ IsNone(fm_chunks[k][j]) )
            => /\ Len(fm_result.res.points) = Len(fm_chunks)
               /\ fm_result.res.points[k] = Num(0)

\* C5: the points fetch_metric returns are at most 60.
C5_AtMost60Points == fm_returned => Len(fm_result.res.points) <= 60

\* C6: the points returned contain no absent entry, they are empty exactly
\* when no chunk produced a median, and otherwise there is one point per
\* chunk.
C6_DenseOrEmpty ==
    fm_returned =>
        LET cp == chunk_points(fm_samples, Len(fm_samples) \div PointsPerPeriod)
            pts == fm_result.res.points
        IN  /\ \A i \in 1..Len(pts) : ~IsNone(pts[i])
            /\ (pts = <<>>) <=> (\A k \in 1..Len(cp) : IsNone(cp[k]))
            /\ (\E k \in 1..Len(cp) : ~IsNone(cp[k])) => Len(pts) = Len(cp)

\* C7: a reply with fewer than 60 datapoints makes fetch_metric raise.
C7_TooFewSamplesFails ==
    (fm_result.done /\ fm_reply.ok /\ Len(fm_reply.datapoints) < 60) => ~fm_result.res.ok

C7_Witness ==
    /\ fm_result.done /\ fm_reply.ok /\ ~fm_result.res.ok
    /\ Len(fm_reply.datapoints) = 59
    /\ \A i \in 1..59 : Truthy(fm_reply.datapoints[i][1])

\* C8: for a list with at least one present value, interpolate_missing
\* returns a list of the same length without absent entries, in which every
\* present value is unchanged, an absent entry between two present ones lies
\* on the line through its nearest present neighbours, and an absent entry
\* before the first or after the last present value has the nearest present
\* value.
C8_Interpolation ==
    (im_result.done /\ \E i \in 1..Len(im_input) : ~IsNone(im_input[i])) =>
        /\ im_result.ok
        /\ Len(im_result.val) = Len(im_input)
        /\ \A x \in 1..Len(im_input) :
              LET y  == im_result.val[x]
                  L  == {i \in 1..(x - 1) : ~IsNone(im_input[i])}
                  R  == {i \in (x + 1)..Len(im_input) : ~IsNone(im_input[i])}
                  lo == CHOOSE i \in L : \A j \in L : j <= i
                  hi == CHOOSE i \in R : \A j \in R : i <= j
              IN  /\ ~IsNone(y)
                  /\ ~IsNone(im_input[x]) => y = im_input[x]
                  /\ (IsNone(im_input[x]) /\ L = {}) => y = im_input[hi]
                  /\ (IsNone(im_input[x]) /\ R = {}) => y = im_input[lo]
                  /\ (IsNone(im_input[x]) /\ L # {} /\ R # {}) =>
                         RatMul(y, Num(hi - lo)) =
                             RatAdd(RatMul(im_input[lo], Num(hi - x)), RatMul(im_input[hi], Num(x - lo)))

C8_Witness ==
    /\ im_result.done
    /\ im_input = <<Num(1), None, Num(3)>>
    /\ im_result.val = <<Num(1), Num(2), Num(3)>>

====
